---------------------------- MODULE Spec2Model ----------------------------
(***************************************************************************)
(* A model of the SynthauraBGM music engine of synthaura.js.               *)
(*                                                                         *)
(* Two engines live in the repository:                                     *)
(*   - the worker-driven engine (src/unnamed/part_000): a Web Worker posts *)
(*     'tick' messages every 25 ms and the main thread runs _schedule();   *)
(*   - the setTimeout-driven engine (src/synthaura.js): schedule() re-arms *)
(*     itself with setTimeout(.., 25) while isPlaying.                     *)
(* Both keep the same transport fields, so they share the variables below; *)
(* the variable engine says which of the two a behaviour of Spec runs.     *)
(*                                                                         *)
(* Time.  One unit of time is 25/144 ms, the coarsest unit in which every  *)
(* duration of the code is an integer: 0.1 s = 576, 0.05 s = 288,          *)
(* 25 ms = 144, 150 ms = 864, 200 ms = 1152, 500 ms = 2880 and             *)
(* noteLength = 60/bpm/4 s = 86400/bpm units (675 at 128 bpm, 640 at 135,  *)
(* 960 at 90).  The render clock ctx.currentTime and the timer clock are   *)
(* one clock, now (the audio context is running).  Arithmetic is exact,    *)
(* where the code's is IEEE double.                                        *)
(***************************************************************************)
EXTENDS Integers, Sequences, FiniteSets, TLC

VARIABLES
    now,            \* ctx.currentTime, and the clock of setTimeout/setInterval
    isPlaying,      \* this.isPlaying
    bpm,            \* this.bpm
    noteLength,     \* this.noteLength
    nextNoteTime,   \* this.nextNoteTime
    tick,           \* this.tick
    measure,        \* this.measure
    currentTrack,   \* this.currentTrack
    masterGain,     \* automation timeline of _master.gain (events not yet superseded)
    timers,         \* pending setTimeout callbacks of the main thread, in registration order
    toWorker,       \* messages posted to the worker and not yet processed by it
    id,             \* the worker's `id` variable: TRUE iff it holds an interval handle
    intervals,      \* next firing time of every live setInterval of the worker
    toMain,         \* number of 'tick' messages posted by the worker, not yet handled
    workerAlive,    \* FALSE once _worker.terminate() ran
    busConnected,   \* FALSE once destroy() disconnected the mix bus nodes
    emitted,        \* Pattern Generator calls made by the most recent run of the scheduler
    prevLast,       \* event time of the last Pattern Generator call before that run, -1 if none
    sinceStart,     \* TRUE iff that call was made after the most recent start()
    lastOp,         \* the public operation whose call produced the current state, if one did
    calls,          \* calls of the public operations made so far, those of switchTrack,
                    \* and the name passed to the most recent switchTrack
    engine,         \* which SynthauraBGM is running: "worker" or "legacy"
    probe,          \* the inputs and results of an operation checked on its own
    started,        \* the most recent start(): the render clock then (-1 if none) and
                    \* whether an earlier start() and a stop came before it; with emitted,
                    \* prevLast and sinceStart an observation no operation reads
    voiceEnd,       \* the latest stop time of a voice built by the worker-driven scheduler
                    \* so far, and what it was when destroy() was last called (-1 if none)
    voices,         \* the voices built by the _play* calls made on their own or by one
                    \* Pattern Generator call
    beats,          \* the onBeat(time, tag) calls of those voices, in order
    sidechain,      \* the automation events of _sidechainBus.gain: kind, value, time
    seed            \* the value nextNoteTime was last seeded with, the tick and bar then,
                    \* the number of Pattern Generator calls made since, and the clock
                    \* when start() seeded it or the scheduler last ran; an observation

transport == <<isPlaying, bpm, noteLength, nextNoteTime, tick, measure, currentTrack>>
worker    == <<toWorker, id, intervals, toMain, workerAlive>>
observed  == <<emitted, prevLast, sinceStart, started, voiceEnd, seed>>
built     == <<voices, beats, sidechain>>
vars      == <<now, transport, masterGain, timers, worker, busConnected, observed, lastOp, calls,
              engine, probe, built>>

(***************************************************************************)
(* Program constants, in units of 25/144 ms.                               *)
(***************************************************************************)
Lookahead     == 576      \* const lookahead = 0.1
StartSeed     == 576      \* ctx.currentTime + 0.1 in start()
SwapSeed      == 288      \* ctx.currentTime + 0.05 in the swap
Fade          == 864      \* FADE * 1000 ms = 150 ms
Interval      == 144      \* setInterval(.., 25)
DestroyDelay  == 2880     \* setTimeout(.., 500) in destroy()
LegacyRearm   == 144      \* setTimeout(() => this.schedule(), 25)
LegacyUnmute  == 1152     \* setTimeout(() => this.master.gain.value = 1, 200)
TicksPerBar   == 16       \* if (++this.tick >= 16)
InitialBpm    == 128      \* this.bpm = 128
MainThemeBpm  == 135
OtherBpm      == 90

(***************************************************************************)
(* Bounds of the model.                                                    *)
(***************************************************************************)
MaxSmall    == 1    \* the clock takes up to MaxSmall small steps,
SmallJump   == 2    \* each of SmallJump polling intervals,
FarSteps    == 80   \* and may then pause until FarSteps polling intervals (2 s)
MaxCalls    == 4    \* calls of start, stop, switchTrack and destroy in one run
MaxSwitches == 2    \* calls of switchTrack among them
MaxTimers   == 1    \* pending setTimeout callbacks of the worker-driven engine
MaxLegacyTimers == 3  \* pending setTimeout callbacks of the setTimeout-driven engine
MaxBar      == 3    \* bars from which a run of advance steps begins
MaxAdvance  == 18   \* advance steps in such a run
MaxPosted   == 1    \* messages waiting in the worker's queue
MaxInFlight == 1    \* 'tick' messages waiting in the main thread's queue
MaxBarIndex == 50   \* bars for which the Pattern Generator is called
MaxVoices   == 2    \* voices built by _play* calls made on their own
MaxSlot     == 1    \* their times are 0..MaxSlot lookaheads (100 ms) from 0
MaxEnded    == 2    \* 'ended' events dispatched to the generators of those voices
MaxIndex    == 16   \* getFreq is called with indices -MaxIndex..MaxIndex
MaxSwapBar  == 0    \* the Pattern Generator on its own: the track is swapped in bars 0..MaxSwapBar

Instants   == {k * SmallJump * Interval : k \in 0..MaxSmall} \cup {FarSteps * Interval}
Tracks     == {"ambient", "mainTheme", "boss"}

NoteLengthOf(b) == 86400 \div b     \* 60 / bpm / 4 seconds

NoteLengths == {NoteLengthOf(b) : b \in {InitialBpm, MainThemeBpm, OtherBpm}}

TargetVol(track) == IF track = "mainTheme" THEN 20 ELSE 15   \* 0.2 : 0.15

(***************************************************************************)
(* AudioParam automation of _master.gain.  Every call of the code is made  *)
(* at ctx.currentTime, so an event is either at the current instant        *)
(* (age 0) or in the past (age 1); the clock ages the events.              *)
(* cancelScheduledValues(now) removes the events at or after now, and a    *)
(* new event at now supersedes the past ones for every future value.       *)
(***************************************************************************)
CancelScheduledValues(s) == SelectSeq(s, LAMBDA e : e.age > 0)

Superseded(s) == SelectSeq(s, LAMBDA e : e.age = 0)

SetValueAtTime(s, v) == Append(Superseded(s), [k |-> "set", v |-> v, tc |-> 0, age |-> 0])

SetTargetAtTime(s, v, tc) ==
    Append(Superseded(s), [k |-> "target", v |-> v, tc |-> tc, age |-> 0])

SetValue(s, v) == Append(Superseded(s), [k |-> "value", v |-> v, tc |-> 0, age |-> 0])

Aged(s) == [i \in 1..Len(s) |-> [s[i] EXCEPT !.age = 1]]

(***************************************************************************)
(* Scales and getFreq.  A frequency base * 2^oct * num / den is kept as    *)
(* the record of its factors, base in hundredths of a hertz: a product by  *)
(* a power of two is exact in floating point, so two frequencies are the   *)
(* same number iff the records agree.                                      *)
(***************************************************************************)
Hz(base, oct, num, den) == [base |-> base, oct |-> oct, num |-> num, den |-> den]

NotANumber == Hz(0, 0, 0, 0)        \* undefined * Math.pow(2, ..)

DefaultFreq == Hz(44000, 0, 1, 1)   \* if (!scale) return 440

ScaleNames == {"mainTheme", "ambient"}

\* this.scales of each file; a name outside ScaleNames has no scale.
Scales(eng, scaleName) ==
    IF eng = "worker"
    THEN IF scaleName = "mainTheme"
         THEN <<13081, 14683, 15556, 17461, 19600, 20765, 23308>>
         ELSE <<23308, 20765, 17461, 15556>>
    ELSE IF scaleName = "mainTheme"
         THEN <<13081, 14683, 15556, 17461, 19600, 20765, 24694>>
         ELSE <<14683, 11654, 17461, 13081>>

\* The % of JavaScript: the remainder has the sign of the dividend.
JsRem(a, b) == IF a >= 0 THEN a % b ELSE 0 - ((0 - a) % b)

\* scale[i] of JavaScript: undefined outside 0..length-1.
ScaleAt(scale, i, oct) ==
    IF i \in 0..(Len(scale) - 1) THEN Hz(scale[i + 1], oct, 1, 1) ELSE NotANumber

\* getFreq that fails on an unknown scale name instead of returning 440.
GetFreqNoDefault(eng, scaleName, index) ==
    IF scaleName \notin ScaleNames THEN NotANumber
    ELSE LET scale == Scales(eng, scaleName)
             len   == Len(scale)
         IN  ScaleAt(scale, JsRem(JsRem(index, len) + len, len), index \div len)

GetFreq(eng, scaleName, index) ==
    IF scaleName \notin ScaleNames THEN DefaultFreq
    ELSE LET scale == Scales(eng, scaleName)
             len   == Len(scale)
         IN  IF eng = "worker"
             THEN ScaleAt(scale, JsRem(JsRem(index, len) + len, len), index \div len)
             ELSE ScaleAt(scale, JsRem(index, len), index \div len)

(***************************************************************************)
(* The section map.  OUTRO ends at Infinity.                               *)
(***************************************************************************)
SectionNames == {"INTRO", "VERSE", "CHORUS", "BREAKDOWN", "BUILD", "OUTRO"}

Range(s, e, inf) == [start |-> s, end |-> e, unbounded |-> inf]

\* SECTIONS with BUILD starting one bar late: bar 40 is in no section.
SECTIONSWithGap ==
    [n \in SectionNames |->
        CASE n = "INTRO"     -> Range(0, 8, FALSE)
          [] n = "VERSE"     -> Range(8, 16, FALSE)
          [] n = "CHORUS"    -> Range(16, 32, FALSE)
          [] n = "BREAKDOWN" -> Range(32, 40, FALSE)
          [] n = "BUILD"     -> Range(41, 48, FALSE)
          [] n = "OUTRO"     -> Range(48, 0, TRUE)]

SECTIONS ==
    [n \in SectionNames |->
        CASE n = "INTRO"     -> Range(0, 8, FALSE)
          [] n = "VERSE"     -> Range(8, 16, FALSE)
          [] n = "CHORUS"    -> Range(16, 32, FALSE)
          [] n = "BREAKDOWN" -> Range(32, 40, FALSE)
          [] n = "BUILD"     -> Range(40, 48, FALSE)
          [] n = "OUTRO"     -> Range(48, 0, TRUE)]

\* bar >= SECTIONS.X.start && bar < SECTIONS.X.end
InSection(name, bar) ==
    /\ bar >= SECTIONS[name].start
    /\ SECTIONS[name].unbounded \/ bar < SECTIONS[name].end

(***************************************************************************)
(* Voices.  A voice is the nodes one _play* call creates: its generators   *)
(* (the nodes that are started and stopped), the generators whose onended  *)
(* is the cleanup closure, the nodes handed to makeCleanup, and the        *)
(* connections.  disconnects counts the disconnect() calls on each node,   *)
(* fired the 'ended' events of each generator.                             *)
(***************************************************************************)
KickLength     == 2880     \* osc.stop(time + 0.5)
SnareLength    == 1152     \* src.stop(time + 0.2)
HihatOpen      == 1728     \* open ? 0.3
HihatClosed    == 288      \*      : 0.05
BassTail       == 576      \* osc1.stop(time + dur + 0.1)
LeadTail       == 2880     \* carrier.stop(time + dur + 0.5)
SynthTail      == 576      \* osc.stop(time + dur + 0.1)
DuckRamp       == 864      \* exponentialRampToValueAtTime(1.0, time + 0.15)
OrnamentLength == 1728     \* this._playSynth(freq, time, 0.3, 'sine')
FragmentLength == 2880     \* this._playFMLead(freq, .., 0.5, 0.1)

Unpitched == Hz(0, 0, 1, 1)

\* f * 2^oct * num / den
Times(f, oct, num, den) == Hz(f.base, f.oct + oct, f.num * num, f.den * den)

\* The time of the stop() call each _play* method makes on its generators.
StopTime(play, time, dur, open) ==
    CASE play = "kick"  -> time + KickLength
      [] play = "snare" -> time + SnareLength
      [] play = "hihat" -> time + (IF open THEN HihatOpen ELSE HihatClosed)
      [] play = "bass"  -> time + dur + BassTail
      [] play = "lead"  -> time + dur + LeadTail
      [] play = "synth" -> time + dur + SynthTail

NewVoice(kind, freq, start, stop, gens, hooks, owned, edges) ==
    [kind |-> kind, freq |-> freq, start |-> start, stop |-> stop,
     nodes |-> gens \cup {e[1] : e \in edges},
     gens |-> gens, hooks |-> hooks, owned |-> owned, edges |-> edges,
     done |-> FALSE,
     disconnects |-> [n \in owned |-> 0],
     fired |-> [g \in gens |-> 0]]

Built(voice, beat, duck) == [voice |-> voice, beat |-> beat, duck |-> duck]

Beat(time, tag) == <<[time |-> time, tag |-> tag]>>

PlayKick(eng, time) ==
    Built(NewVoice("kick", Hz(15000, 0, 1, 1), time, StopTime("kick", time, 0, FALSE), {"osc"},
                   IF eng = "worker" THEN {"osc"} ELSE {},
                   IF eng = "worker" THEN {"osc", "gain"} ELSE {},
                   {<<"osc", "gain">>, <<"gain", "master">>}),
          Beat(time, "kick"), TRUE)

\* _playSnare with its gain connected to the master bus.
PlaySnareDry(eng, time) ==
    Built(NewVoice("snare", Unpitched, time, StopTime("snare", time, 0, FALSE), {"src"},
                   IF eng = "worker" THEN {"src"} ELSE {},
                   IF eng = "worker" THEN {"src", "filter", "gain"} ELSE {},
                   {<<"src", "filter">>, <<"filter", "gain">>, <<"gain", "master">>}),
          Beat(time, "snare"), FALSE)

PlaySnare(eng, time) ==
    Built(NewVoice("snare", Unpitched, time, StopTime("snare", time, 0, FALSE), {"src"},
                   IF eng = "worker" THEN {"src"} ELSE {},
                   IF eng = "worker" THEN {"src", "filter", "gain"} ELSE {},
                   {<<"src", "filter">>, <<"filter", "gain">>, <<"gain", "sidechainBus">>}),
          Beat(time, "snare"), FALSE)

\* _playHihat with a beat notification.
PlayHihatWithBeat(time, open) ==
    Built(NewVoice("hihat", Unpitched, time,
                   StopTime("hihat", time, 0, open), {"src"}, {"src"},
                   {"src", "filter", "gain"},
                   {<<"src", "filter">>, <<"filter", "gain">>, <<"gain", "sidechainBus">>}),
          Beat(time, "hihat"), FALSE)

PlayHihat(time, open) ==
    Built(NewVoice("hihat", Unpitched, time,
                   StopTime("hihat", time, 0, open), {"src"}, {"src"},
                   {"src", "filter", "gain"},
                   {<<"src", "filter">>, <<"filter", "gain">>, <<"gain", "sidechainBus">>}),
          <<>>, FALSE)

PlaySuperSawBass(freq, time, dur) ==
    Built(NewVoice("bass", freq, time, StopTime("bass", time, dur, FALSE), {"osc1", "osc2"},
                   {"osc1", "osc2"}, {"osc1", "osc2", "filter", "gain"},
                   {<<"osc1", "filter">>, <<"osc2", "filter">>, <<"filter", "gain">>,
                    <<"gain", "sidechainBus">>}),
          Beat(time, "bass"), FALSE)

PlayFMLead(freq, time, dur) ==
    Built(NewVoice("lead", freq, time, StopTime("lead", time, dur, FALSE), {"carrier", "modulator"},
                   {"carrier"},
                   {"carrier", "modulator", "modGain", "gain", "delay", "dGain"},
                   {<<"modulator", "modGain">>, <<"modGain", "carrier.frequency">>,
                    <<"carrier", "gain">>, <<"gain", "sidechainBus">>, <<"gain", "delay">>,
                    <<"delay", "dGain">>, <<"dGain", "sidechainBus">>}),
          Beat(time, "lead"), FALSE)

PlaySynth(freq, time, dur) ==
    Built(NewVoice("pad", freq, time, StopTime("synth", time, dur, FALSE), {"osc"}, {"osc"},
                   {"osc", "gain"}, {<<"osc", "gain">>, <<"gain", "reverb">>}),
          <<>>, FALSE)

(***************************************************************************)
(* The Pattern Generator of the worker-driven engine: the _play* calls of  *)
(* one call, in order, each with its arguments.  rnd holds the values      *)
(* Math.random() returns: fill (> 0.85), pick and frag (Math.floor(r * 4)) *)
(* and jitter (r * 0.05).                                                  *)
(***************************************************************************)
Rnd == [fill : BOOLEAN, pick : 0..3, frag : 0..3, jitter : {0, 144}]

Play(play, freq, time, dur, open) ==
    [play |-> play, freq |-> freq, time |-> time, dur |-> dur, open |-> open]

If(cond, s) == IF cond THEN s ELSE <<>>

PlayAmbientPattern(time, tk, bar, nl, rnd) ==
    LET root == Hz(Scales("worker", "ambient")[(bar % 4) + 1], 0, 1, 1)
        mult == <<<<1, 1>>, <<5, 4>>, <<3, 2>>, <<7, 4>>>>[rnd.pick + 1]
    IN  If(tk = 0 /\ bar % 2 = 0,
           <<Play("synth", Times(root, 1, 1, 1), time, nl * 32, FALSE),
             Play("synth", Times(root, 0, 3, 2), time, nl * 32, FALSE)>>)
        \o If(tk % 4 = 0, <<Play("synth", Times(root, -1, 1, 1), time, nl * 3, FALSE)>>)
        \o If(rnd.fill,
              <<Play("synth", Times(root, 1, mult[1], mult[2]), time, OrnamentLength, FALSE)>>)

\* _playDrums without its early return in INTRO.
PlayDrumsFromIntro(time, tk, bar) ==
    LET isBreakdown == InSection("BREAKDOWN", bar)
        isBuild     == InSection("BUILD", bar)
        snare       == <<Play("snare", Unpitched, time, 0, FALSE)>>
    IN  If(~isBreakdown /\ tk % 4 = 0, <<Play("kick", Unpitched, time, 0, FALSE)>>)
        \o (IF isBuild THEN If(tk % 2 = 0, snare)
            ELSE If(~isBreakdown /\ tk % 8 = 4, snare))
        \o If(~isBreakdown /\ tk % 2 = 0,
              <<Play("hihat", Unpitched, time, 0, tk % 8 = 2)>>)

PlayDrums(time, tk, bar) ==
    IF bar < SECTIONS["VERSE"].start THEN <<>>
    ELSE LET isBreakdown == InSection("BREAKDOWN", bar)
             isBuild     == InSection("BUILD", bar)
             snare       == <<Play("snare", Unpitched, time, 0, FALSE)>>
         IN  If(~isBreakdown /\ tk % 4 = 0, <<Play("kick", Unpitched, time, 0, FALSE)>>)
             \o (IF isBuild THEN If(tk % 2 = 0, snare)
                 ELSE If(~isBreakdown /\ tk % 8 = 4, snare))
             \o If(~isBreakdown /\ tk % 2 = 0,
                   <<Play("hihat", Unpitched, time, 0, tk % 8 = 2)>>)

\* _playBass without its test of the tick.
PlayBassEveryTick(time, tk, bar, nl) ==
    LET rootIdx == <<0, 5, 3, 4>>[(bar % 4) + 1]
    IN  <<Play("bass", GetFreq("worker", "mainTheme", rootIdx), time, nl, FALSE)>>

PlayBass(time, tk, bar, nl) ==
    LET rootIdx == <<0, 5, 3, 4>>[(bar % 4) + 1]
    IN  If(tk % 4 # 0,
           <<Play("bass", GetFreq("worker", "mainTheme", rootIdx), time, nl, FALSE)>>)

\* _playLead playing the silence marker -1 as scale index -1.
PlayLeadThroughSilence(time, tk, bar, nl, rnd) ==
    IF InSection("CHORUS", bar) \/ bar >= SECTIONS["OUTRO"].start
    THEN LET melody  == <<7, -1, 7, 8, 7, 4, 2, 0, -1, 2, 4, 2, 0, -1, -1, -1>>
             noteVal == melody[tk + 1]
         IN  <<Play("lead",
                    GetFreq("worker", "mainTheme",
                            noteVal + (IF bar >= SECTIONS["OUTRO"].start THEN 7 ELSE 0)),
                    time, nl * 2, FALSE)>>
    ELSE If(InSection("BREAKDOWN", bar) /\ tk % 4 = 0,
            <<Play("lead", GetFreq("worker", "mainTheme", <<0, 2, 4, 7>>[rnd.frag + 1] + 7),
                   time + rnd.jitter, FragmentLength, FALSE)>>)

PlayLead(time, tk, bar, nl, rnd) ==
    IF InSection("CHORUS", bar) \/ bar >= SECTIONS["OUTRO"].start
    THEN LET melody  == <<7, -1, 7, 8, 7, 4, 2, 0, -1, 2, 4, 2, 0, -1, -1, -1>>
             noteVal == melody[tk + 1]
         IN  If(noteVal # -1,
                <<Play("lead",
                       GetFreq("worker", "mainTheme",
                               noteVal + (IF bar >= SECTIONS["OUTRO"].start THEN 7 ELSE 0)),
                       time, nl * 2, FALSE)>>)
    ELSE If(InSection("BREAKDOWN", bar) /\ tk % 4 = 0,
            <<Play("lead", GetFreq("worker", "mainTheme", <<0, 2, 4, 7>>[rnd.frag + 1] + 7),
                   time + rnd.jitter, FragmentLength, FALSE)>>)

PlayMainThemePatternWithFills(time, tk, bar, nl, rnd) ==
    PlayDrums(time, tk, bar) \o PlayBass(time, tk, bar, nl) \o PlayLead(time, tk, bar, nl, rnd)
    \o If(rnd.fill, <<Play("hihat", Unpitched, time, 0, TRUE)>>)

PlayMainThemePattern(time, tk, bar, nl, rnd) ==
    PlayDrums(time, tk, bar) \o PlayBass(time, tk, bar, nl) \o PlayLead(time, tk, bar, nl, rnd)

\* What _schedule() calls for one event.
Pattern(track, time, tk, bar, nl, rnd) ==
    IF track = "mainTheme" THEN PlayMainThemePattern(time, tk, bar, nl, rnd)
                           ELSE PlayAmbientPattern(time, tk, bar, nl, rnd)

\* The patterns of src/synthaura.js, a four-on-the-floor demo without
\* sections.  Its playSynth is among the methods the file leaves out ("Keep
\* other synth methods"); the voice is the one _playSynth builds.
LegacyPattern(track, time, tk, bar, nl) ==
    LET kick == If(tk % 4 = 0, <<Play("kick", Unpitched, time, 0, FALSE)>>)
    IN  IF track = "mainTheme"
        THEN kick \o If(tk % 8 = 4, <<Play("snare", Unpitched, time, 0, FALSE)>>)
        ELSE If(tk = 0 /\ bar % 2 = 0,
                <<Play("synth", Hz(Scales("legacy", "ambient")[(bar % 4) + 1], 1, 1, 1),
                       time, nl * 32, FALSE)>>)
             \o kick

\* The Pattern Generator of each file.
PatternOf(eng, track, time, tk, bar, nl, rnd) ==
    IF eng = "worker" THEN Pattern(track, time, tk, bar, nl, rnd)
                      ELSE LegacyPattern(track, time, tk, bar, nl)

\* The _play* method a call runs.
Build(eng, p) ==
    CASE p.play = "kick"  -> PlayKick(eng, p.time)
      [] p.play = "snare" -> PlaySnare(eng, p.time)
      [] p.play = "hihat" -> PlayHihat(p.time, p.open)
      [] p.play = "bass"  -> PlaySuperSawBass(p.freq, p.time, p.dur)
      [] p.play = "lead"  -> PlayFMLead(p.freq, p.time, p.dur)
      [] p.play = "synth" -> PlaySynth(p.freq, p.time, p.dur)

(***************************************************************************)
(* The scheduler: one advance step, and the while loop of _schedule().     *)
(***************************************************************************)
\* Advance with `>` for `>=`: the tick wraps one step late.
AdvanceLate(tk, ms) ==
    IF tk + 1 > TicksPerBar THEN [tick |-> 0, measure |-> ms + 1]
                            ELSE [tick |-> tk + 1, measure |-> ms]

\* Advance without `this.measure++`.
AdvanceNoCarry(tk, ms) ==
    IF tk + 1 >= TicksPerBar THEN [tick |-> 0, measure |-> ms]
                             ELSE [tick |-> tk + 1, measure |-> ms]

Advance(tk, ms) ==
    IF tk + 1 >= TicksPerBar THEN [tick |-> 0, measure |-> ms + 1]
                             ELSE [tick |-> tk + 1, measure |-> ms]

Generator(track) == IF track = "mainTheme" THEN "mainTheme" ELSE "ambient"

\* The loop of _schedule() taking the render clock for the time of an event
\* that is already due.
RECURSIVE ScheduleLoopFromClock(_, _, _, _)
ScheduleLoopFromClock(nnt, tk, ms, out) ==
    IF nnt < now + Lookahead
    THEN LET a == Advance(tk, ms)
             t == IF nnt < now THEN now ELSE nnt
         IN  ScheduleLoopFromClock(t + noteLength, a.tick, a.measure,
                 Append(out, [time |-> t, tick |-> tk, bar |-> ms,
                              gen |-> Generator(currentTrack)]))
    ELSE [nextNoteTime |-> nnt, tick |-> tk, measure |-> ms, out |-> out]

RECURSIVE ScheduleLoop(_, _, _, _)
ScheduleLoop(nnt, tk, ms, out) ==
    IF nnt < now + Lookahead
    THEN LET a == Advance(tk, ms)
         IN  ScheduleLoop(nnt + noteLength, a.tick, a.measure,
                 Append(out, [time |-> nnt, tick |-> tk, bar |-> ms,
                              gen |-> Generator(currentTrack)]))
    ELSE [nextNoteTime |-> nnt, tick |-> tk, measure |-> ms, out |-> out]

LastTime(out, dflt) == IF out = <<>> THEN dflt ELSE out[Len(out)].time

\* nextNoteTime is assigned s, at tick tk of bar ms, and n calls follow at once.
Seeded(s, tk, ms, n) ==
    seed' = [time |-> s, tick |-> tk, bar |-> ms, calls |-> n, sync |-> now]

\* n more calls are made from nextNoteTime on.
Continued(n) == seed' = [seed EXCEPT !.calls = @ + n, !.sync = now]

\* The window of the previous run of the scheduler is closed.
CloseWindow ==
    /\ prevLast' = LastTime(emitted, prevLast)
    /\ sinceStart' = (sinceStart \/ emitted # <<>>)

Max(a, b) == IF a >= b THEN a ELSE b

Greatest(S) == CHOOSE m \in S : \A n \in S : n <= m

Least(S) == CHOOSE m \in S : \A n \in S : m <= n

\* pick and frag choose a pitch and no time.
RndTimes == {rnd \in Rnd : rnd.pick = 0 /\ rnd.frag = 0}

StopOf(p) == StopTime(p.play, p.time, p.dur, p.open)

\* The latest stop time among the voices of a sequence of _play* calls, -1 if
\* it is empty.
LastStop(plays) == Greatest({-1} \cup {StopOf(plays[i]) : i \in 1..Len(plays)})

\* That time for a Pattern Generator call made with time 0, for every
\* outcome of Math.random().
StopsAfter ==
    [g \in {"ambient", "mainTheme"} |-> [nl \in NoteLengths |->
        [b \in 0..MaxBarIndex |-> [tk \in 0..(TicksPerBar - 1) |->
            {LastStop(plays) : plays \in {Pattern(g, 0, tk, b, nl, rnd) : rnd \in RndTimes}}]]]]

\* Every _play* call stops its generators at its time argument plus a length
\* that does not depend on the time: the stop times of a call are those of
\* the same call at time 0, later by call.time.
CallStops(call) ==
    {IF d = -1 THEN -1 ELSE call.time + d :
        d \in StopsAfter[call.gen][noteLength][call.bar][call.tick]}

\* The latest stop times that runs whose calls end in the sets ends[i] can
\* lead to: a stop time of one call, not below the least stop time of any other.
LatestOf(ends) ==
    LET low == Greatest({Least(ends[i]) : i \in DOMAIN ends})
    IN  {m \in UNION {ends[i] : i \in DOMAIN ends} : m >= low}

LatestStops(out) ==
    UNION {LatestOf(ends) : ends \in {[i \in 1..Len(out) |-> CallStops(out[i])]}}

\* The state change of _schedule() / schedule() entered with nextNoteTime = nnt,
\* with the Pattern Generator calls it made.
ScheduleFrom(nnt) ==
    \E r \in {ScheduleLoop(nnt, tick, measure, <<>>)} :
        /\ nextNoteTime' = r.nextNoteTime
        /\ tick' = r.tick
        /\ measure' = r.measure
        /\ emitted' = r.out
        /\ IF engine = "worker" /\ r.out # <<>>
           THEN \E m \in LatestStops(r.out) :
                    voiceEnd' = [voiceEnd EXCEPT !.latest = Max(@, m)]
           ELSE voiceEnd' = voiceEnd

\* An operation that does not run the scheduler.
NoSchedule ==
    /\ emitted' = <<>>
    /\ CloseWindow
    /\ started' = started
    /\ voiceEnd' = voiceEnd
    /\ seed' = seed

\* An operation that assigns nextNoteTime, tick and measure and does not run
\* the scheduler.
Reseed(s) ==
    /\ emitted' = <<>>
    /\ CloseWindow
    /\ started' = started
    /\ voiceEnd' = voiceEnd
    /\ seed' = [time |-> s, tick |-> 0, bar |-> 0, calls |-> 0, sync |-> seed.sync]

(***************************************************************************)
(* Timers and worker messages.                                             *)
(***************************************************************************)
Remove(s, i) == [j \in 1..(Len(s) - 1) |-> IF j < i THEN s[j] ELSE s[j + 1]]

SetTimeout(q, kind, arg, delay) ==
    Append(q, [kind |-> kind, arg |-> arg, due |-> now + delay, delay |-> delay])

\* A callback runs once its delay has passed, after every callback that was
\* registered earlier with an equal or shorter delay.
Runnable(i) ==
    /\ i \in 1..Len(timers)
    /\ now >= timers[i].due
    /\ \A j \in 1..(i - 1) : timers[j].delay > timers[i].delay

\* A call of a public operation by the host page.
Call(op, arg) ==
    /\ calls.all < MaxCalls
    /\ op = "switchTrack" => calls.switchTrack < MaxSwitches
    /\ calls' = [all |-> calls.all + 1,
                 switchTrack |-> calls.switchTrack + (IF op = "switchTrack" THEN 1 ELSE 0),
                 last |-> IF op = "switchTrack" THEN arg ELSE calls.last]
    /\ lastOp' = [op |-> op, arg |-> arg]
    /\ UNCHANGED <<engine, probe, built>>

\* A callback, a message handler or the clock.
Internal ==
    /\ calls' = calls
    /\ lastOp' = [op |-> "none", arg |-> ""]
    /\ UNCHANGED <<engine, probe, built>>

\* An early return.
Idle ==
    /\ NoSchedule
    /\ UNCHANGED <<now, transport, masterGain, timers, worker, busConnected>>

PostMessage(q, m) == IF workerAlive THEN Append(q, m) ELSE q

(***************************************************************************)
(* Construction (both engines).                                            *)
(***************************************************************************)
ConstructedAt(tk, ms) ==
    /\ now = 0
    /\ isPlaying = FALSE
    /\ bpm = InitialBpm
    /\ noteLength = NoteLengthOf(InitialBpm)
    /\ nextNoteTime = 0
    /\ tick = tk
    /\ measure = ms
    /\ currentTrack = "ambient"
    /\ masterGain = SetValue(<<>>, 20)
    /\ timers = <<>>
    /\ toWorker = <<>>
    /\ id = FALSE
    /\ intervals = <<>>
    /\ toMain = 0
    /\ workerAlive = TRUE
    /\ busConnected = TRUE
    /\ emitted = <<>>
    /\ prevLast = -1
    /\ sinceStart = FALSE
    /\ started = [at |-> -1, again |-> FALSE]
    /\ voiceEnd = [latest |-> -1, atDestroy |-> -1]
    /\ voices = <<>>
    /\ beats = <<>>
    /\ sidechain = <<>>
    /\ seed = [time |-> 0, tick |-> tk, bar |-> ms, calls |-> 0, sync |-> 0]
    /\ lastOp = [op |-> "new", arg |-> ""]
    /\ calls = [all |-> 0, switchTrack |-> 0, last |-> ""]

Init ==
    /\ ConstructedAt(0, 0)
    /\ engine \in {"worker", "legacy"}
    /\ probe = [t0 |-> 0, b0 |-> 0, n |-> 0]

(***************************************************************************)
(* The worker-driven engine (src/unnamed/part_000).                        *)
(***************************************************************************)
\* start() past its guard.
StartBody ==
    /\ Len(toWorker) < MaxPosted
    /\ isPlaying' = TRUE
    /\ nextNoteTime' = now + StartSeed
    /\ masterGain' = SetTargetAtTime(SetValueAtTime(CancelScheduledValues(masterGain), 0),
                                     TargetVol(currentTrack), 1728)
    /\ toWorker' = PostMessage(toWorker, "start")
    /\ emitted' = <<>>
    /\ prevLast' = LastTime(emitted, prevLast)
    /\ sinceStart' = FALSE
    /\ Seeded(now + StartSeed, tick, measure, 0)
    /\ started' = [at |-> now, again |-> started.at # -1]
    /\ voiceEnd' = voiceEnd
    /\ UNCHANGED <<now, bpm, noteLength, tick, measure, currentTrack, timers,
                   id, intervals, toMain, workerAlive, busConnected>>

StartUnguarded ==
    /\ engine = "worker"
    /\ Call("start", "")
    /\ StartBody

Start ==
    /\ engine = "worker"
    /\ Call("start", "")
    /\ IF isPlaying THEN Idle ELSE StartBody

\* stop() past its guard.
StopBodyRewinding ==
    /\ Len(toWorker) < MaxPosted
    /\ isPlaying' = FALSE
    /\ toWorker' = PostMessage(toWorker, "stop")
    /\ masterGain' = SetTargetAtTime(CancelScheduledValues(masterGain), 0, 576)
    /\ tick' = 0
    /\ measure' = 0
    /\ UNCHANGED <<now, bpm, noteLength, nextNoteTime, currentTrack,
                   id, intervals, toMain, workerAlive, busConnected>>

StopBody ==
    /\ Len(toWorker) < MaxPosted
    /\ isPlaying' = FALSE
    /\ toWorker' = PostMessage(toWorker, "stop")
    /\ masterGain' = SetTargetAtTime(CancelScheduledValues(masterGain), 0, 576)
    /\ UNCHANGED <<now, bpm, noteLength, nextNoteTime, tick, measure, currentTrack,
                   id, intervals, toMain, workerAlive, busConnected>>

Stop ==
    /\ engine = "worker"
    /\ Call("stop", "")
    /\ IF ~isPlaying THEN Idle
       ELSE StopBody /\ NoSchedule /\ timers' = timers

SwitchTrackBodyDisconnecting(trackName) ==
    /\ Len(timers) < MaxTimers
    /\ masterGain' = SetTargetAtTime(CancelScheduledValues(masterGain), 0, 288)
    /\ timers' = SetTimeout(timers, "swap", trackName, Fade)
    /\ NoSchedule
    /\ busConnected' = FALSE
    /\ UNCHANGED <<now, transport, worker>>

\* switchTrack(trackName) past its guard: the fade-out and the deferred swap.
SwitchTrackBody(trackName) ==
    /\ Len(timers) < MaxTimers
    /\ masterGain' = SetTargetAtTime(CancelScheduledValues(masterGain), 0, 288)
    /\ timers' = SetTimeout(timers, "swap", trackName, Fade)
    /\ NoSchedule
    /\ UNCHANGED <<now, transport, worker, busConnected>>

SwitchTrackUnguarded(trackName) ==
    /\ engine = "worker"
    /\ Call("switchTrack", trackName)
    /\ SwitchTrackBody(trackName)

SwitchTrack(trackName) ==
    /\ engine = "worker"
    /\ Call("switchTrack", trackName)
    /\ IF currentTrack = trackName THEN Idle ELSE SwitchTrackBody(trackName)

\* The callback of switchTrack's setTimeout.
Swap(trackName) ==
    /\ currentTrack' = trackName
    /\ tick' = 0
    /\ measure' = 0
    /\ bpm' = (IF trackName = "mainTheme" THEN MainThemeBpm ELSE OtherBpm)
    /\ noteLength' = NoteLengthOf(bpm')
    /\ nextNoteTime' = now + SwapSeed
    /\ masterGain' = SetTargetAtTime(CancelScheduledValues(masterGain),
                                     TargetVol(trackName), 1728)

SwapFire ==
    \E i \in 1..Len(timers) :
        /\ engine = "worker"
        /\ Runnable(i)
        /\ timers[i].kind = "swap"
        /\ Swap(timers[i].arg)
        /\ timers' = Remove(timers, i)
        /\ Internal
        /\ Reseed(now + SwapSeed)
        /\ UNCHANGED <<now, isPlaying, worker, busConnected>>

Destroy ==
    /\ engine = "worker"
    /\ Call("destroy", "")
    /\ emitted' = <<>>
    /\ CloseWindow
    /\ started' = started
    /\ voiceEnd' = [voiceEnd EXCEPT !.atDestroy = voiceEnd.latest]
    /\ seed' = seed
    /\ Len(timers) < MaxTimers
    /\ timers' = SetTimeout(timers, "destroy", "", DestroyDelay)
    /\ IF ~isPlaying
       THEN UNCHANGED <<now, transport, masterGain, worker, busConnected>>
       ELSE StopBody

\* The callback of destroy()'s setTimeout: terminate() discards the worker
\* with its queues; the bus nodes are disconnected.
DestroyFire ==
    \E i \in 1..Len(timers) :
        /\ engine = "worker"
        /\ Runnable(i)
        /\ timers[i].kind = "destroy"
        /\ timers' = Remove(timers, i)
        /\ workerAlive' = FALSE
        /\ toWorker' = <<>>
        /\ toMain' = 0
        /\ intervals' = <<>>
        /\ id' = FALSE
        /\ busConnected' = FALSE
        /\ Internal
        /\ NoSchedule
        /\ UNCHANGED <<now, transport, masterGain>>

WorkerReceiveNoClear ==
    /\ engine = "worker"
    /\ workerAlive
    /\ toWorker # <<>>
    /\ toWorker' = Tail(toWorker)
    /\ IF Head(toWorker) = "start"
       THEN /\ intervals' = Append(intervals, now + Interval)
            /\ id' = TRUE
       ELSE /\ intervals' = intervals
            /\ id' = FALSE
    /\ Internal
    /\ NoSchedule
    /\ UNCHANGED <<now, transport, masterGain, timers, toMain, workerAlive, busConnected>>

\* self.onmessage of the worker.
WorkerReceive ==
    /\ engine = "worker"
    /\ workerAlive
    /\ toWorker # <<>>
    /\ toWorker' = Tail(toWorker)
    /\ IF Head(toWorker) = "start"
       THEN /\ intervals' = Append(intervals, now + Interval)
            /\ id' = TRUE
       ELSE /\ intervals' = (IF id THEN SubSeq(intervals, 1, Len(intervals) - 1) ELSE intervals)
            /\ id' = FALSE
    /\ Internal
    /\ NoSchedule
    /\ UNCHANGED <<now, transport, masterGain, timers, toMain, workerAlive, busConnected>>

\* The worker's setInterval callback: postMessage('tick').
WorkerTick ==
    \E i \in 1..Len(intervals) :
        /\ engine = "worker"
        /\ workerAlive
        /\ now >= intervals[i]
        /\ toMain < MaxInFlight
        /\ intervals' = [intervals EXCEPT ![i] = now + Interval]
        /\ toMain' = toMain + 1
        /\ Internal
        /\ NoSchedule
        /\ UNCHANGED <<now, transport, masterGain, timers, toWorker, id, workerAlive,
                       busConnected>>

\* this._worker.onmessage = () => this._schedule()
Pulse ==
    /\ engine = "worker"
    /\ toMain > 0
    /\ toMain' = toMain - 1
    /\ ScheduleFrom(nextNoteTime)
    /\ Continued(Len(emitted'))
    /\ CloseWindow
    /\ started' = started
    /\ Internal
    /\ UNCHANGED <<now, isPlaying, bpm, noteLength, currentTrack, masterGain, timers,
                   toWorker, id, intervals, workerAlive, busConnected>>

(***************************************************************************)
(* The setTimeout-driven engine (src/synthaura.js).                        *)
(***************************************************************************)
\* schedule() re-arms itself while isPlaying.
Rearm(q, playing) == IF playing THEN SetTimeout(q, "loop", "", LegacyRearm) ELSE q

StartLegacy ==
    /\ engine = "legacy"
    /\ Call("start", "")
    /\ IF isPlaying THEN Idle
       ELSE /\ Len(timers) < MaxLegacyTimers
            /\ isPlaying' = TRUE
            /\ ScheduleFrom(now + StartSeed)
            /\ Seeded(now + StartSeed, tick, measure, Len(emitted'))
            /\ timers' = Rearm(timers, TRUE)
            /\ CloseWindow
            /\ started' = [at |-> now, again |-> started.at # -1]
            /\ UNCHANGED <<now, bpm, noteLength, currentTrack, masterGain, worker,
                           busConnected>>

StopLegacy ==
    /\ engine = "legacy"
    /\ Call("stop", "")
    /\ Len(timers) < MaxLegacyTimers
    /\ isPlaying' = FALSE
    /\ masterGain' = SetTargetAtTime(masterGain, 0, 576)
    /\ timers' = SetTimeout(timers, "unmute", "", LegacyUnmute)
    /\ NoSchedule
    /\ UNCHANGED <<now, bpm, noteLength, nextNoteTime, tick, measure, currentTrack,
                   worker, busConnected>>

\* The assignments of switchTrack past its early return.
SwapLegacy(trackName) ==
    /\ currentTrack' = trackName
    /\ tick' = 0
    /\ measure' = 0
    /\ bpm' = (IF trackName = "mainTheme" THEN MainThemeBpm ELSE OtherBpm)
    /\ masterGain' = SetTargetAtTime(masterGain, TargetVol(trackName), 2880)
    /\ noteLength' = NoteLengthOf(bpm')
    /\ nextNoteTime' = now + SwapSeed

SwitchTrackLegacy(trackName) ==
    /\ engine = "legacy"
    /\ Call("switchTrack", trackName)
    /\ IF currentTrack = trackName THEN Idle
       ELSE /\ SwapLegacy(trackName)
            /\ Reseed(now + SwapSeed)
            /\ UNCHANGED <<now, isPlaying, timers, worker, busConnected>>

\* The callback () => this.schedule().
LoopFire ==
    \E i \in 1..Len(timers) :
        /\ engine = "legacy"
        /\ Runnable(i)
        /\ timers[i].kind = "loop"
        /\ ScheduleFrom(nextNoteTime)
        /\ Continued(Len(emitted'))
        /\ timers' = Rearm(Remove(timers, i), isPlaying)
        /\ CloseWindow
        /\ started' = started
        /\ Internal
        /\ UNCHANGED <<now, isPlaying, bpm, noteLength, currentTrack, masterGain, worker,
                       busConnected>>

\* The callback () => this.master.gain.value = 1.
UnmuteFire ==
    \E i \in 1..Len(timers) :
        /\ engine = "legacy"
        /\ Runnable(i)
        /\ timers[i].kind = "unmute"
        /\ masterGain' = SetValue(masterGain, 100)
        /\ timers' = Remove(timers, i)
        /\ Internal
        /\ NoSchedule
        /\ UNCHANGED <<now, transport, worker, busConnected>>

(***************************************************************************)
(* The clock, and the two engines as one system.                           *)
(***************************************************************************)
AdvanceClock ==
    \E t \in Instants :
        /\ t > now
        /\ now' = t
        /\ Internal
        /\ masterGain' = Aged(masterGain)
        /\ NoSchedule
        /\ UNCHANGED <<transport, timers, worker, busConnected>>

Next ==
    \/ Start
    \/ Stop
    \/ \E n \in Tracks : SwitchTrack(n)
    \/ SwapFire
    \/ Destroy
    \/ DestroyFire
    \/ WorkerReceive
    \/ WorkerTick
    \/ Pulse
    \/ StartLegacy
    \/ StopLegacy
    \/ \E n \in Tracks : SwitchTrackLegacy(n)
    \/ LoopFire
    \/ UnmuteFire
    \/ AdvanceClock

Spec == Init /\ [][Next]_vars

(***************************************************************************)
(* The advance step of the scheduler on its own: from any tick and bar,    *)
(* the loop body's `if (++this.tick >= 16) { this.tick = 0; measure++ }`.  *)
(***************************************************************************)
AdvInit ==
    \E tk \in 0..(TicksPerBar - 1), ms \in 0..MaxBar :
        /\ ConstructedAt(tk, ms)
        /\ engine = "worker"
        /\ probe = [t0 |-> tk, b0 |-> ms, n |-> 0]

AdvanceStep ==
    /\ probe.n < MaxAdvance
    /\ LET a == Advance(tick, measure)
       IN  /\ tick' = a.tick
           /\ measure' = a.measure
    /\ nextNoteTime' = nextNoteTime + noteLength
    /\ probe' = [probe EXCEPT !.n = @ + 1]
    /\ UNCHANGED <<now, isPlaying, bpm, noteLength, currentTrack, masterGain, timers, worker,
                   busConnected, observed, lastOp, calls, engine, built>>

AdvNext == AdvanceStep

AdvSpec == AdvInit /\ [][AdvNext]_vars

(***************************************************************************)
(* The mix bus network the constructor wires, as connections <<from, to>>. *)
(***************************************************************************)
MixBus ==
    {<<"compressor", "destination">>, <<"master", "compressor">>,
     <<"reverb", "reverbGain">>, <<"reverbGain", "master">>,
     <<"sidechainBus", "master">>, <<"sidechainBus", "reverb">>}

BusNodes == {e[1] : e \in MixBus} \cup {e[2] : e \in MixBus}

\* The bus nodes voice v is connected into.
Outputs(v) == {e[2] : e \in v.edges} \cap BusNodes

(***************************************************************************)
(* The voices on their own: _play* calls with times one lookahead apart,   *)
(* the 'ended' events of their generators, and the render clock.  The      *)
(* legacy file holds playKick and playSnare only.                          *)
(***************************************************************************)
\* The closure makeCleanup returns, without its `done` flag.
CleanupUnguarded(v) ==
    [v EXCEPT !.done = TRUE,
              !.edges = {e \in @ : e[1] \notin v.owned},
              !.disconnects = [n \in v.owned |-> @[n] + 1]]

\* The closure makeCleanup(...nodes) returns, called on voice v.
Cleanup(v) ==
    IF v.done THEN v
    ELSE [v EXCEPT !.done = TRUE,
                   !.edges = {e \in @ : e[1] \notin v.owned},
                   !.disconnects = [n \in v.owned |-> @[n] + 1]]

\* An 'ended' event on generator g of voice v: its onended, if set, runs.
OnEnded(v, g) ==
    LET w == [v EXCEPT !.fired[g] = @ + 1]
    IN  IF g \in v.hooks THEN Cleanup(w) ELSE w

\* An AudioParam keeps its events ordered by time.
RECURSIVE Insert(_, _)
Insert(s, e) ==
    IF s = <<>> \/ s[Len(s)].t <= e.t THEN Append(s, e)
    ELSE Append(Insert(SubSeq(s, 1, Len(s) - 1), e), s[Len(s)])

CancelFrom(s, time) == SelectSeq(s, LAMBDA e : e.t < time)

\* The sidechain lines of _playKick without cancelScheduledValues.
DuckNoCancel(s, time) ==
    Insert(Insert(s, [k |-> "set", v |-> 30, t |-> time]),
           [k |-> "ramp", v |-> 100, t |-> time + DuckRamp])

\* cancelScheduledValues(time); setValueAtTime(0.3, time);
\* exponentialRampToValueAtTime(1.0, time + 0.15)
Duck(s, time) ==
    Insert(Insert(CancelFrom(s, time), [k |-> "set", v |-> 30, t |-> time]),
           [k |-> "ramp", v |-> 100, t |-> time + DuckRamp])

VoiceTimes == {k * Lookahead : k \in 0..MaxSlot}

\* The _play* calls of each file, with arguments the patterns pass.
VoiceCalls(eng) ==
    {Play("kick", Unpitched, t, 0, FALSE) : t \in VoiceTimes}
    \cup {Play("snare", Unpitched, t, 0, FALSE) : t \in VoiceTimes}
    \cup (IF eng = "legacy" THEN {}
          ELSE {Play("hihat", Unpitched, t, 0, open) : t \in VoiceTimes, open \in BOOLEAN}
               \cup {Play("bass", GetFreq(eng, "mainTheme", 0), t, noteLength, FALSE) :
                        t \in VoiceTimes}
               \cup {Play("lead", GetFreq(eng, "mainTheme", 7), t, noteLength * 2, FALSE) :
                        t \in VoiceTimes}
               \cup {Play("synth", Hz(23308, 1, 1, 1), t, noteLength * 32, FALSE) :
                        t \in VoiceTimes})

PlayVoice ==
    \E p \in VoiceCalls(engine) :
        /\ Len(voices) < MaxVoices
        /\ LET b == Build(engine, p)
           IN  /\ voices' = Append(voices, b.voice)
               /\ beats' = beats \o b.beat
               /\ sidechain' = (IF b.duck THEN Duck(sidechain, p.time) ELSE sidechain)
        /\ UNCHANGED <<now, transport, masterGain, timers, worker, busConnected, observed,
                       lastOp, calls, engine, probe>>

RECURSIVE Sum(_, _)
Sum(f, S) == IF S = {} THEN 0 ELSE LET x == CHOOSE y \in S : TRUE IN f[x] + Sum(f, S \ {x})

RECURSIVE Fired(_)
Fired(vs) == IF vs = <<>> THEN 0 ELSE Sum(Head(vs).fired, Head(vs).gens) + Fired(Tail(vs))

\* A generator reaches its stop time and its 'ended' event is dispatched.
Ended ==
    \E i \in 1..Len(voices) :
        \E g \in voices[i].gens :
            /\ now >= voices[i].stop
            /\ Fired(voices) < MaxEnded
            /\ voices' = [voices EXCEPT ![i] = OnEnded(@, g)]
            /\ UNCHANGED <<now, transport, masterGain, timers, worker, busConnected,
                           observed, lastOp, calls, engine, probe, beats, sidechain>>

VoiceClock ==
    \E i \in 1..Len(voices) :
        /\ voices[i].stop > now
        /\ now' = voices[i].stop
        /\ UNCHANGED <<transport, masterGain, timers, worker, busConnected, observed,
                       lastOp, calls, engine, probe, built>>

VoiceNext ==
    \/ PlayVoice
    \/ Ended
    \/ VoiceClock

VoiceSpec == Init /\ [][VoiceNext]_vars

(***************************************************************************)
(* The worker-driven scheduler when a voice builder, or the host's onBeat  *)
(* callback it calls, throws: nothing between the throw and the worker's   *)
(* message handler catches.                                                *)
(***************************************************************************)
\* The Pattern Generator call builds a voice, whose construction can throw.
CanThrow(call) ==
    \E rnd \in Rnd :
        Pattern(call.gen, call.time, call.tick, call.bar, noteLength, rnd) # <<>>

\* onmessage -> _schedule(), the k-th Pattern Generator call of the loop throwing:
\* the loop is left before `this.nextNoteTime += this.noteLength`.
PulseThrows ==
    \E r \in {ScheduleLoop(nextNoteTime, tick, measure, <<>>)} :
        \E k \in 1..Len(r.out) :
            /\ engine = "worker"
            /\ toMain > 0
            /\ CanThrow(r.out[k])
            /\ toMain' = toMain - 1
            /\ nextNoteTime' = r.out[k].time
            /\ tick' = r.out[k].tick
            /\ measure' = r.out[k].bar
            /\ emitted' = SubSeq(r.out, 1, k)
            /\ IF k > 1
               THEN \E m \in LatestStops(SubSeq(r.out, 1, k - 1)) :
                        voiceEnd' = [voiceEnd EXCEPT !.latest = Max(@, m)]
               ELSE voiceEnd' = voiceEnd
            /\ Continued(k)
            /\ CloseWindow
            /\ started' = started
            /\ calls' = calls
            /\ lastOp' = [op |-> "uncaught", arg |-> ""]
            /\ UNCHANGED <<now, isPlaying, bpm, noteLength, currentTrack, masterGain, timers,
                           toWorker, id, intervals, workerAlive, busConnected, engine,
                           probe, built>>

ThrowNext ==
    \/ Start
    \/ WorkerReceive
    \/ WorkerTick
    \/ Pulse
    \/ PulseThrows
    \/ AdvanceClock

ThrowSpec == Init /\ [][ThrowNext]_vars

(***************************************************************************)
(* The Pattern Generator on its own: the body of the scheduler's loop, one *)
(* event after the other from bar 0, on the ambient track or, after a swap *)
(* to 'mainTheme', on the main theme; emitted holds the call just made.    *)
(***************************************************************************)
RECURSIVE BeatsFrom(_)
BeatsFrom(bs) == IF bs = <<>> THEN <<>> ELSE Head(bs).beat \o BeatsFrom(Tail(bs))

RECURSIVE DuckAll(_, _)
DuckAll(s, bs) ==
    IF bs = <<>> THEN s
    ELSE DuckAll(IF Head(bs).duck THEN Duck(s, Head(bs).voice.start) ELSE s, Tail(bs))

\* The _play* calls of one Pattern Generator call, in order.
Perform(eng, plays) ==
    \E bs \in {[i \in 1..Len(plays) |-> Build(eng, plays[i])]} :
        /\ voices' = [i \in 1..Len(bs) |-> bs[i].voice]
        /\ beats' = BeatsFrom(bs)
        /\ sidechain' = DuckAll(sidechain, bs)

PatternInit ==
    /\ ConstructedAt(0, 0)
    /\ engine \in {"worker", "legacy"}
    /\ probe = [t0 |-> 0, b0 |-> 0, n |-> 0]

\* One iteration of the while loop of _schedule() / schedule().
PatternCall ==
    /\ measure <= MaxBarIndex
    /\ \E rnd \in Rnd :
           Perform(engine, PatternOf(engine, currentTrack, nextNoteTime, tick, measure,
                                     noteLength, rnd))
    /\ LET a == Advance(tick, measure)
       IN  /\ tick' = a.tick
           /\ measure' = a.measure
    /\ nextNoteTime' = nextNoteTime + noteLength
    /\ emitted' = <<[time |-> nextNoteTime, tick |-> tick, bar |-> measure,
                     gen |-> Generator(currentTrack)]>>
    /\ Continued(1)
    /\ CloseWindow
    /\ UNCHANGED <<now, isPlaying, bpm, noteLength, currentTrack, masterGain, timers, worker,
                   busConnected, started, voiceEnd, lastOp, calls, engine, probe>>

\* The swap callback of switchTrack('mainTheme'); in src/synthaura.js the body
\* of switchTrack.
PatternSwap ==
    /\ currentTrack = "ambient"
    /\ measure <= MaxSwapBar
    /\ IF engine = "worker" THEN Swap("mainTheme") ELSE SwapLegacy("mainTheme")
    /\ Reseed(now + SwapSeed)
    /\ UNCHANGED <<now, isPlaying, timers, worker, busConnected, lastOp, calls,
                   engine, probe, built>>

PatternNext ==
    \/ PatternCall
    \/ PatternSwap

PatternSpec == PatternInit /\ [][PatternNext]_vars

(***************************************************************************)
(* getFreq on its own: calls with any scale name and index, in each file.  *)
(***************************************************************************)
FreqInit ==
    /\ ConstructedAt(0, 0)
    /\ engine \in {"worker", "legacy"}
    /\ probe = [scale |-> "", index |-> 0, freq |-> NotANumber]

\* A call getFreq(name, i); probe keeps the arguments and the value returned.
GetFreqCall ==
    \E name \in Tracks, i \in (0 - MaxIndex)..MaxIndex :
        /\ probe' = [scale |-> name, index |-> i, freq |-> GetFreq(engine, name, i)]
        /\ UNCHANGED <<now, transport, masterGain, timers, worker, busConnected, observed,
                       lastOp, calls, engine, built>>

FreqNext == GetFreqCall

FreqSpec == FreqInit /\ [][FreqNext]_vars

(***************************************************************************)
(* The worker-driven engine with a timer that is never late: while         *)
(* isPlaying the clock does not pass one lookahead beyond the instant of   *)
(* the last start() or of the last run of the scheduler, so every pulse is *)
(* handled within the lookahead of the one before it, and the first within *)
(* the lookahead of start().  The clock moves in steps of the worker's     *)
(* interval.                                                               *)
(***************************************************************************)
MaxTimely   == 9       \* the clock runs to MaxTimely intervals (25 ms each)
TimelySteps == {2, 3}

TimelyInit ==
    /\ ConstructedAt(0, 0)
    /\ engine = "worker"
    /\ probe = [t0 |-> 0, b0 |-> 0, n |-> 0]

TimelyClock ==
    \E d \in TimelySteps :
        /\ now + d * Interval <= MaxTimely * Interval
        /\ isPlaying => now + d * Interval <= seed.sync + Lookahead
        /\ now' = now + d * Interval
        /\ Internal
        /\ masterGain' = Aged(masterGain)
        /\ NoSchedule
        /\ UNCHANGED <<transport, timers, worker, busConnected>>

TimelyNext ==
    \/ Start
    \/ Stop
    \/ \E n \in Tracks : SwitchTrack(n)
    \/ SwapFire
    \/ WorkerReceive
    \/ WorkerTick
    \/ Pulse
    \/ TimelyClock

TimelySpec == TimelyInit /\ [][TimelyNext]_vars

(***************************************************************************)
(* The sound-effect throttle (SynthauraSFX._canPlay and the play* methods  *)
(* that call it).  Times here are Date.now() readings in milliseconds.     *)
(* probe holds the effect object's state: wall (the reading of Date.now()),*)
(* enabled, lastPlayTimes (0 for an id never recorded, as `|| 0` reads     *)
(* it), plays (every effect that got past the throttle and was built,      *)
(* oldest first), id/ok (the last play* call and whether it played) and    *)
(* steps (how many times the clock has moved).                             *)
(***************************************************************************)
WallStart == 1000
MaxWallSteps == 3
MaxPlays == 3
WallSteps == {0 - 20, 30, 50}

Effects(eng) == IF eng = "worker" THEN {"iceCast", "hitCrunchy", "explosion", "pickup"}
                ELSE {"iceCast", "hitCrunchy"}

Cooldown == [iceCast |-> 100, hitCrunchy |-> 50, explosion |-> 150, pickup |-> 80]

\* Whether the play* method of this effect tests `enabled` before the throttle.
ChecksEnabled(eng, effect) == eng = "worker" \/ effect # "iceCast"

CanPlayAlwaysRecording(last, effect, cooldownMs, t) ==
    [ok |-> ~(t - last[effect] < cooldownMs), last |-> [last EXCEPT ![effect] = t]]

\* _canPlay(id, cooldownMs) at Date.now() = t: the value returned and the
\* table of last play times it leaves.
CanPlay(last, effect, cooldownMs, t) ==
    IF t - last[effect] < cooldownMs
    THEN [ok |-> FALSE, last |-> last]
    ELSE [ok |-> TRUE, last |-> [last EXCEPT ![effect] = t]]

SfxInit ==
    /\ ConstructedAt(0, 0)
    /\ engine \in {"worker", "legacy"}
    /\ probe = [wall |-> WallStart, enabled |-> TRUE,
                lastPlayTimes |-> [effect \in Effects("worker") |-> 0],
                plays |-> <<>>, id |-> "", ok |-> FALSE, steps |-> 0]

SfxFrame == UNCHANGED <<now, transport, masterGain, timers, worker, busConnected, observed,
                        lastOp, calls, engine, built>>

\* playMagicIceCast, playHitCrunchy, playExplosion, playPickup.  With
\* enabled false the || returns before _canPlay is called.
PlayEffect ==
    \E effect \in Effects(engine) :
        /\ Len(probe.plays) < MaxPlays
        /\ IF ChecksEnabled(engine, effect) /\ ~probe.enabled
           THEN probe' = [probe EXCEPT !.id = effect, !.ok = FALSE]
           ELSE \E r \in {CanPlay(probe.lastPlayTimes, effect, Cooldown[effect], probe.wall)} :
                    probe' = [probe EXCEPT
                                 !.id = effect, !.ok = r.ok, !.lastPlayTimes = r.last,
                                 !.plays = IF r.ok
                                           THEN Append(@, [id |-> effect, at |-> probe.wall])
                                           ELSE @]
        /\ SfxFrame

\* The host sets the public field `enabled`.
SetEnabled ==
    /\ probe' = [probe EXCEPT !.enabled = ~@, !.id = "", !.ok = FALSE]
    /\ SfxFrame

\* Date.now() moves; the wall clock may also be set back.
WallClock ==
    \E d \in WallSteps :
        /\ probe.steps < MaxWallSteps
        /\ probe' = [probe EXCEPT !.wall = @ + d, !.steps = @ + 1,
                                  !.id = "", !.ok = FALSE]
        /\ SfxFrame

SfxNext ==
    \/ PlayEffect
    \/ SetEnabled
    \/ WallClock

SfxSpec == SfxInit /\ [][SfxNext]_vars

(***************************************************************************)
(* The claims.                                                             *)
(***************************************************************************)
Since(i) == IF i > 1 THEN emitted[i - 1].time
            ELSE IF sinceStart THEN prevLast ELSE -1

Before(i) == IF i > 1 THEN emitted[i - 1].time ELSE prevLast

\* C1: a run of the worker-driven scheduler makes Pattern Generator calls
\* only while the engine is Playing: once stop() has returned, no pulse
\* causes a call until the next start().
C1_NoCallWhileStopped ==
    (engine = "worker" /\ emitted # <<>>) => isPlaying

\* C2: nextNoteTime never decreases from one state to the next.
C2_NextNoteTimeMonotone ==
    [][engine = "worker" => nextNoteTime' >= nextNoteTime]_vars

\* C3: every Pattern Generator call is made with an event time no earlier
\* than the event time of the call before it, within a pulse and across
\* pulses, swaps and stop()/start() pairs.
C3_EventTimesMonotone ==
    engine = "worker" =>
        \A i \in 1..Len(emitted) : emitted[i].time >= Before(i)

\* C4: sixteen advance steps from any tick and bar lead back to the same
\* tick, one bar later; the bar is incremented on the step that takes the
\* tick from 15 to 0 and on no other step.
C4_SixteenStepsOneBar ==
    /\ [](probe.n = 16 => (tick = probe.t0 /\ measure = probe.b0 + 1))
    /\ [][\/ tick = 15 /\ tick' = 0 /\ measure' = measure + 1
          \/ tick # 15 /\ tick' = tick + 1 /\ measure' = measure]_vars

C4_Witness ==
    /\ probe.n = 16
    /\ probe.t0 = 7
    /\ probe.b0 = 2

\* C5: in every reachable state, and at every Pattern Generator call, tick
\* is an integer in 0..15 and measure a non-negative integer.
C5_TickAndMeasureRange ==
    /\ tick \in 0..15
    /\ measure \in Nat
    /\ \A i \in 1..Len(emitted) : emitted[i].tick \in 0..15 /\ emitted[i].bar \in Nat

C5_Witness ==
    /\ engine = "worker"
    /\ \E i \in 1..(Len(emitted) - 1) :
          /\ emitted[i].tick = 15
          /\ emitted[i + 1].tick = 0
          /\ emitted[i + 1].bar = emitted[i].bar + 1

\* C6: after a stop() followed by start(), start() seeds nextNoteTime at or
\* after the render clock, and every event emitted after that start() has a
\* time at or after that seed and later than the event before it.
C6_NoReplayAfterRestart ==
    (engine = "worker" /\ started.again) =>
        /\ (lastOp.op = "start" /\ started.at = now) => nextNoteTime >= now
        /\ \A i \in 1..Len(emitted) :
              /\ emitted[i].time >= started.at + StartSeed
              /\ emitted[i].time > Since(i)

\* C7: switchTrack(name) with name = currentTrack changes no transport
\* field, schedules no master-gain automation and no deferred swap.
C7_SameTrackNoOp ==
    [][(lastOp'.op = "switchTrack" /\ lastOp'.arg = currentTrack)
          => UNCHANGED <<transport, masterGain, timers>>]_vars

C7_Witness ==
    /\ engine = "worker"
    /\ lastOp.op = "switchTrack"
    /\ lastOp.arg = currentTrack
    /\ currentTrack = "mainTheme"
    /\ isPlaying

\* C8: start() while Playing does not re-seed nextNoteTime, schedules no
\* master-gain automation and does not arm the timer source again.
C8_StartWhilePlayingNoOp ==
    [][(lastOp'.op = "start" /\ isPlaying)
          => UNCHANGED <<transport, masterGain, timers, worker>>]_vars

C8_Witness ==
    /\ lastOp.op = "start"
    /\ isPlaying
    /\ nextNoteTime # now + StartSeed
    /\ now > started.at

\* C9: stop() while Stopped changes no transport field, schedules no
\* master-gain automation or gain write and sends nothing to the timer
\* source.
C9_StopWhileStoppedNoOp ==
    [][(lastOp'.op = "stop" /\ ~isPlaying)
          => UNCHANGED <<transport, masterGain, timers, worker>>]_vars

\* C9, the worker-driven engine alone: its stop() returns early.
C9_WorkerStopWhileStoppedNoOp ==
    [][(engine = "worker" /\ lastOp'.op = "stop" /\ ~isPlaying)
          => UNCHANGED <<transport, masterGain, timers, worker>>]_vars

\* A swap: the step that changes currentTrack.
SwapStep(name) ==
    /\ currentTrack' = name
    /\ tick' = 0
    /\ measure' = 0
    /\ bpm' = (IF name = "mainTheme" THEN 135 ELSE 90)
    /\ noteLength' = 86400 \div bpm'
    /\ nextNoteTime' = now + SwapSeed

\* C10: switchTrack(name) with another name changes no transport field at
\* the call; the track changes only in a deferred callback, no earlier than
\* the crossfade delay after the call, which sets the track, tick, measure,
\* tempo, noteLength and nextNoteTime in one step.
C10_DeferredAtomicSwap ==
    [][/\ lastOp'.op = "switchTrack" => UNCHANGED transport
       /\ currentTrack' # currentTrack =>
             /\ SwapStep(currentTrack')
             /\ \E i \in 1..Len(timers) :
                   /\ timers[i] = [kind |-> "swap", arg |-> currentTrack',
                                   due |-> timers[i].due, delay |-> Fade]
                   /\ now >= timers[i].due
                   /\ timers' = Remove(timers, i)]_vars

\* C10, the worker-driven engine alone.
C10_WorkerDeferredAtomicSwap ==
    [][engine = "worker" =>
       /\ lastOp'.op = "switchTrack" => UNCHANGED transport
       /\ currentTrack' # currentTrack =>
             /\ SwapStep(currentTrack')
             /\ \E i \in 1..Len(timers) :
                   /\ timers[i] = [kind |-> "swap", arg |-> currentTrack',
                                   due |-> timers[i].due, delay |-> Fade]
                   /\ now >= timers[i].due
                   /\ timers' = Remove(timers, i)]_vars

\* C11: destroy() stops playback, and the callback that terminates the
\* worker and disconnects the bus nodes runs only when every voice that was
\* scheduled at the call of destroy() has reached its stop time.
C11_ReleaseAfterVoices ==
    [][/\ lastOp'.op = "destroy" => ~isPlaying'
       /\ (busConnected /\ ~busConnected') => voiceEnd.atDestroy <= now]_vars

\* C12: the completion callback of a voice is idempotent: however many
\* 'ended' events reach it, and from whichever of the voice's generators, each
\* node of the voice is disconnected exactly once, and a call after the first
\* changes nothing.
C12_CleanupIdempotent ==
    /\ [](\A i \in 1..Len(voices) :
            \A n \in voices[i].owned :
                /\ voices[i].disconnects[n] <= 1
                /\ (\E g \in voices[i].hooks : voices[i].fired[g] > 0)
                       => voices[i].disconnects[n] = 1)
    /\ [][\A i \in 1..Len(voices) :
            voices[i].done =>
                /\ voices'[i].edges = voices[i].edges
                /\ voices'[i].disconnects = voices[i].disconnects]_vars

C12_Witness ==
    \E i \in 1..Len(voices) :
        /\ voices[i].kind = "bass"
        /\ voices[i].fired["osc1"] >= 1
        /\ voices[i].fired["osc2"] >= 1
        /\ \A n \in voices[i].owned : voices[i].disconnects[n] = 1
        /\ voices[i].edges = {}

\* The completion callback of voice v is registered, and once it has run no
\* node the voice created is still connected.
Released(v) ==
    /\ v.hooks # {}
    /\ (\E g \in v.hooks : v.fired[g] > 0) =>
           /\ v.edges = {}
           /\ \A n \in v.nodes : n \in v.owned /\ v.disconnects[n] = 1

\* C13: every voice (kick, snare, hi-hat, bass, lead, pad) registers a
\* completion callback on a generator, and after that generator has ended
\* every node the voice created has been disconnected.
C13_VoicesReleaseNodes == \A i \in 1..Len(voices) : Released(voices[i])

\* C13 for the worker-driven engine alone, whose six builders all end with
\* onended = makeCleanup(...).
C13_WorkerVoicesReleaseNodes ==
    engine = "worker" => \A i \in 1..Len(voices) : Released(voices[i])

C13_WorkerWitness ==
    /\ engine = "worker"
    /\ \E i \in 1..Len(voices) :
           /\ voices[i].kind = "lead"
           /\ voices[i].fired["carrier"] = 1
           /\ voices[i].edges = {}

BeatKinds == {"kick", "snare", "bass", "lead"}

\* The beats the voices vs account for, in the order the voices were built.
RECURSIVE BeatsOf(_)
BeatsOf(vs) ==
    IF vs = <<>> THEN <<>>
    ELSE (IF Head(vs).kind \in BeatKinds
          THEN <<[time |-> Head(vs).start, tag |-> Head(vs).kind]>>
          ELSE <<>>) \o BeatsOf(Tail(vs))

\* C14: every kick, snare, bass and lead voice built causes exactly one
\* onBeat(time, tag) with its scheduled start time and its kind; hi-hat and
\* pad voices cause none.
C14_OneBeatPerVoice == beats = BeatsOf(voices)

C14_Witness ==
    /\ Len(voices) = 2
    /\ {voices[1].kind, voices[2].kind} = {"lead", "hihat"}
    /\ beats = <<[time |-> Lookahead, tag |-> "lead"]>>
    /\ now = 0

\* C15: an exception thrown while a voice is built or a beat is notified
\* does not leave the pulse handler: the handler ends having advanced
\* nextNoteTime, tick and measure past every event of the window and having
\* generated every event of the window.
C15_PulseSurvivesThrow ==
    [][toMain' = toMain - 1 =>
          \E r \in {ScheduleLoop(nextNoteTime, tick, measure, <<>>)} :
              /\ lastOp'.op # "uncaught"
              /\ nextNoteTime' = r.nextNoteTime
              /\ tick' = r.tick
              /\ measure' = r.measure
              /\ emitted' = r.out]_vars

\* What getFreq returns for the names that have no scale.
UnknownScaleFreqs ==
    {GetFreq("worker", name, i) : name \in Tracks \ ScaleNames, i \in (0 - MaxIndex)..MaxIndex}

\* C16: unknown names never fail the schedule.  getFreq with a scale name
\* that is not defined returns 440 for every index; and while currentTrack is
\* a name other than 'ambient' and 'mainTheme', every pulse handled while the
\* window is open emits events, all of them with the ambient pattern, and tick and
\* measure advance by one step per event.
C16_UnknownNamesFallBack ==
    /\ [](/\ UnknownScaleFreqs = {DefaultFreq}
          /\ (engine = "worker" /\ currentTrack \notin {"ambient", "mainTheme"}) =>
                /\ \A i \in 1..Len(emitted) : emitted[i].gen = "ambient"
                /\ \A i \in 1..(Len(emitted) - 1) :
                       /\ emitted[i + 1].time = emitted[i].time + noteLength
                       /\ [tick |-> emitted[i + 1].tick, measure |-> emitted[i + 1].bar]
                              = Advance(emitted[i].tick, emitted[i].bar)
                /\ emitted # <<>> =>
                       /\ nextNoteTime = emitted[Len(emitted)].time + noteLength
                       /\ [tick |-> tick, measure |-> measure]
                              = Advance(emitted[Len(emitted)].tick, emitted[Len(emitted)].bar))
    /\ [][(/\ engine = "worker"
           /\ currentTrack \notin {"ambient", "mainTheme"}
           /\ workerAlive'
           /\ toMain' = toMain - 1
           /\ nextNoteTime < now + Lookahead) =>
              /\ emitted' # <<>>
              /\ emitted'[1] = [time |-> nextNoteTime, tick |-> tick, bar |-> measure,
                                gen |-> "ambient"]]_vars

C16_Witness ==
    /\ engine = "worker"
    /\ currentTrack = "boss"
    /\ emitted # <<>>
    /\ emitted[1].gen = "ambient"
    /\ tick = 1

\* C17: the ranges of INTRO, VERSE, CHORUS, BREAKDOWN, BUILD and OUTRO
\* partition the bar indices from 0 on: the bar the scheduler is at lies in
\* the half-open range of exactly one section.
C17_SectionsPartition ==
    /\ measure >= 0
    /\ Cardinality({n \in SectionNames : InSection(n, measure)}) = 1

C17_Witness ==
    /\ measure = SECTIONS["BUILD"].start
    /\ tick = 0
    /\ InSection("BUILD", measure)
    /\ ~InSection("BREAKDOWN", measure)
    /\ currentTrack = "mainTheme"

RECURSIVE Pow2(_)
Pow2(n) == IF n <= 0 THEN 1 ELSE 2 * Pow2(n - 1)

\* a === b of two numbers: NaN equals nothing.
SameNumber(a, b) ==
    /\ a.den # 0
    /\ b.den # 0
    /\ LET m == IF a.oct < b.oct THEN a.oct ELSE b.oct
       IN  a.base * a.num * b.den * Pow2(a.oct - m) = b.base * b.num * a.den * Pow2(b.oct - m)

\* The value getFreq returned for a defined scale has the octave property,
\* is the base frequency at the floor-mod position shifted by floor(i / len)
\* octaves, and is 2 x 130.81 at ('mainTheme', 7) and 233.08 / 2, half the
\* last element, at ('mainTheme', -1).
OctaveProperty ==
    probe.scale \in ScaleNames =>
        LET scale == Scales(engine, probe.scale)
            len   == Len(scale)
            i     == probe.index
        IN  /\ SameNumber(GetFreq(engine, probe.scale, i + len), Times(probe.freq, 1, 1, 1))
            /\ SameNumber(probe.freq, Hz(scale[(i % len) + 1], i \div len, 1, 1))
            /\ (probe.scale = "mainTheme" /\ i = 7) =>
                   SameNumber(probe.freq, Hz(scale[1], 1, 1, 1))
            /\ (probe.scale = "mainTheme" /\ i = -1) =>
                   /\ SameNumber(probe.freq, Hz(scale[len], -1, 1, 1))
                   /\ SameNumber(probe.freq, Hz(23308, -1, 1, 1))

\* C18: for every defined scale and every integer index i, negative ones
\* included, getFreq(scale, i + length) is exactly twice getFreq(scale, i) and
\* getFreq(scale, i) is the base frequency at position i floor-mod length
\* shifted by floor(i / length) octaves; getFreq('mainTheme', 7) is twice the
\* first element and getFreq('mainTheme', -1) is half the last one, 233.08.
C18_OctaveProperty == OctaveProperty

\* C18 for the getFreq of the worker-driven engine alone.
C18_WorkerOctaveProperty == engine = "worker" => OctaveProperty

C18_WorkerWitness ==
    /\ engine = "worker"
    /\ probe.scale = "mainTheme"
    /\ probe.index = -1
    /\ probe.freq = Hz(23308, -1, 1, 1)

\* The kicks among the voices, by position.
Kicks == {i \in 1..Len(voices) : voices[i].kind = "kick"}

\* C19: every kick applies cancel, set and exponential ramp to the gain of
\* the sidechain bus at its own scheduled time: once a kick is built its set
\* (0.3 at its time) and its ramp (to 1.0, 150 ms later) are the last two
\* events of the gain, every ramp that is pending starts from its own kick's
\* set, and no two pending ramps overlap, kicks 100 ms apart included.
C19_OneDuckPending ==
    /\ Kicks = {} => sidechain = <<>>
    /\ Kicks # {} =>
           \E last \in {voices[Greatest(Kicks)]} :
               /\ Len(sidechain) >= 2
               /\ sidechain[Len(sidechain) - 1] = [k |-> "set", v |-> 30, t |-> last.start]
               /\ sidechain[Len(sidechain)] =
                      [k |-> "ramp", v |-> 100, t |-> last.start + DuckRamp]
    /\ \A i \in 1..Len(sidechain) :
           sidechain[i].k = "ramp" =>
               /\ i > 1
               /\ sidechain[i - 1] = [k |-> "set", v |-> 30, t |-> sidechain[i].t - DuckRamp]
               /\ \A j \in 1..(i - 1) :
                      sidechain[j].k = "ramp" => sidechain[j].t <= sidechain[i].t - DuckRamp

C19_Witness ==
    /\ Len(voices) = 2
    /\ voices[1].kind = "kick"
    /\ voices[2].kind = "kick"
    /\ voices[2].start = voices[1].start + Lookahead
    /\ sidechain = <<[k |-> "set", v |-> 30, t |-> voices[1].start],
                     [k |-> "set", v |-> 30, t |-> voices[2].start],
                     [k |-> "ramp", v |-> 100, t |-> voices[2].start + DuckRamp]>>

\* The connections of a chain a -> b -> c -> ...
Chain(path) == {<<path[i], path[i + 1]>> : i \in 1..(Len(path) - 1)}

\* sidechainBus -> master -> compressor -> output and
\* sidechainBus -> reverb -> reverbGain -> master
Topology ==
    busConnected =>
        MixBus = Chain(<<"sidechainBus", "master", "compressor", "destination">>)
                 \cup Chain(<<"sidechainBus", "reverb", "reverbGain", "master">>)

\* C20 as stated: every percussive (kick, snare, hi-hat), bass and lead
\* voice connects its output into sidechainBus and every pad voice directly
\* into the reverb node, the buses being wired sidechainBus -> master ->
\* compressor -> output and sidechainBus -> reverb -> reverbGain -> master.
C20_VoicesIntoSidechain ==
    /\ Topology
    /\ \A i \in 1..Len(voices) :
           ~voices[i].done =>
               /\ voices[i].kind \in {"kick", "snare", "hihat", "bass", "lead"} =>
                      "sidechainBus" \in Outputs(voices[i])
               /\ voices[i].kind = "pad" => Outputs(voices[i]) = {"reverb"}

\* C20, amended: every snare, hi-hat, bass and lead voice connects its
\* output into sidechainBus and nowhere else, every kick voice connects dry
\* into master, every pad voice directly into the reverb node, and the buses
\* are wired as stated.
C20_KickDryOthersIntoSidechain ==
    /\ Topology
    /\ \A i \in 1..Len(voices) :
           ~voices[i].done =>
               /\ voices[i].kind \in {"snare", "hihat", "bass", "lead"} =>
                      Outputs(voices[i]) = {"sidechainBus"}
               /\ voices[i].kind = "kick" => Outputs(voices[i]) = {"master"}
               /\ voices[i].kind = "pad" => Outputs(voices[i]) = {"reverb"}

C20_Witness ==
    /\ engine = "worker"
    /\ Len(voices) = 2
    /\ voices[1].kind = "kick" /\ ~voices[1].done /\ Outputs(voices[1]) = {"master"}
    /\ voices[2].kind = "snare" /\ ~voices[2].done
    /\ Outputs(voices[2]) = {"sidechainBus"}

\* A Pattern Generator call of the main theme has just been made.
MainThemeCall == emitted # <<>> /\ emitted[1].gen = "mainTheme"

\* The voices of one kind that call built.
OfKind(kind) == {i \in 1..Len(voices) : voices[i].kind = kind}

\* C21 as stated: on the mainTheme track, in every bar b >= 0 outside
\* BREAKDOWN exactly one kick is emitted on every tick with tick mod 4 = 0, and
\* no kick is emitted in BREAKDOWN or on the other ticks.
C21_KickEveryFourthTick ==
    MainThemeCall =>
        Cardinality(OfKind("kick")) =
            (IF emitted[1].tick % 4 = 0 /\ ~InSection("BREAKDOWN", emitted[1].bar)
             THEN 1 ELSE 0)

\* C21, amended: in the worker-driven engine exactly one kick is emitted on
\* every tick with tick mod 4 = 0 of every bar from VERSE on (b >= 8) outside
\* BREAKDOWN, and none in INTRO, in BREAKDOWN or on the other ticks; the demo
\* pattern of src/synthaura.js emits exactly one kick on every tick with
\* tick mod 4 = 0 of every bar and none on the other ticks.
C21_KickFromVerseOn ==
    MainThemeCall =>
        Cardinality(OfKind("kick")) =
            (IF /\ emitted[1].tick % 4 = 0
                /\ engine = "worker" =>
                       /\ emitted[1].bar >= SECTIONS["VERSE"].start
                       /\ ~InSection("BREAKDOWN", emitted[1].bar)
             THEN 1 ELSE 0)

C21_Witness ==
    /\ engine = "worker"
    /\ MainThemeCall
    /\ emitted[1].bar = SECTIONS["VERSE"].start
    /\ emitted[1].tick = 0
    /\ Cardinality(OfKind("kick")) = 1

\* C22: on the mainTheme track of the worker-driven engine, in every bar of
\* every section, one bass voice is emitted on exactly the ticks with
\* tick mod 4 # 0, at scale degree [0, 5, 3, 4][bar mod 4] of the main scale,
\* and no call emits both a kick and a bass voice.
C22_BassOffTheKick ==
    (MainThemeCall /\ engine = "worker") =>
        /\ Cardinality(OfKind("bass")) = (IF emitted[1].tick % 4 # 0 THEN 1 ELSE 0)
        /\ \A i \in OfKind("bass") :
               /\ voices[i].start = emitted[1].time
               /\ voices[i].freq =
                      Hz(Scales("worker", "mainTheme")
                             [<<0, 5, 3, 4>>[(emitted[1].bar % 4) + 1] + 1], 0, 1, 1)
        /\ OfKind("kick") = {} \/ OfKind("bass") = {}

C22_Witness ==
    /\ engine = "worker"
    /\ MainThemeCall
    /\ emitted[1].bar = 33
    /\ emitted[1].tick = 5
    /\ \E i \in OfKind("bass") : voices[i].freq = Hz(20765, 0, 1, 1)

\* The fixed 16-step melody of the lead, -1 marking silence.
Melody == <<7, -1, 7, 8, 7, 4, 2, 0, -1, 2, 4, 2, 0, -1, -1, -1>>

\* The frequency at index n >= 0 of the main scale.
MainScaleAt(n) ==
    Hz(Scales("worker", "mainTheme")[(n % 7) + 1], n \div 7, 1, 1)

\* C23: on the mainTheme track of the worker-driven engine, in every bar of
\* CHORUS [16,32) or OUTRO [48,inf) a call emits exactly one lead voice if
\* the melody entry of its tick is not the silence marker and none if it is;
\* in OUTRO the scale index is the entry plus one scale length; in INTRO,
\* VERSE and BUILD no lead voice is emitted.
C23_LeadFollowsMelody ==
    (MainThemeCall /\ engine = "worker") =>
        \E bar \in {emitted[1].bar}, note \in {Melody[emitted[1].tick + 1]} :
            /\ (InSection("CHORUS", bar) \/ InSection("OUTRO", bar)) =>
                   /\ Cardinality(OfKind("lead")) = (IF note # -1 THEN 1 ELSE 0)
                   /\ \A i \in OfKind("lead") :
                          /\ voices[i].start = emitted[1].time
                          /\ voices[i].freq =
                                 MainScaleAt(note + (IF InSection("OUTRO", bar) THEN 7 ELSE 0))
            /\ (InSection("INTRO", bar) \/ InSection("VERSE", bar) \/ InSection("BUILD", bar))
                   => OfKind("lead") = {}

C23_Witness ==
    /\ engine = "worker"
    /\ MainThemeCall
    /\ emitted[1].bar = 48
    /\ emitted[1].tick = 3
    /\ \E i \in OfKind("lead") : voices[i].freq = Hz(14683, 2, 1, 1)

\* C24: event times do not drift with the timer.  The call that k calls
\* precede since nextNoteTime was seeded with s (by start() or by a track
\* swap) is made with event time s + k * noteLength and k ticks after the
\* position at the seed, however many pulses there were and whenever they
\* arrived.
C24_NoDrift ==
    \A i \in 1..Len(emitted) :
        \E k \in {seed.calls - Len(emitted) + i - 1} :
            /\ k >= 0
            /\ emitted[i].time = seed.time + k * noteLength
            /\ emitted[i].bar * TicksPerBar + emitted[i].tick
                   = seed.bar * TicksPerBar + seed.tick + k

C24_Witness ==
    /\ isPlaying
    /\ seed.calls > Len(emitted)
    /\ Len(emitted) > 1
    /\ now > emitted[1].time + Lookahead

\* C25: two plays of one throttled effect are at least its cooldown apart; a
\* play* call that is rejected leaves every recorded last-play time as it
\* was; and a play* call changes the recorded time of no other effect.
C25_Throttle ==
    /\ [](\A i, j \in 1..Len(probe.plays) :
              (i < j /\ probe.plays[i].id = probe.plays[j].id)
                  => probe.plays[j].at - probe.plays[i].at
                         >= Cooldown[probe.plays[i].id])
    /\ [][(probe'.id # "" /\ ~probe'.ok)
              => probe'.lastPlayTimes = probe.lastPlayTimes]_vars
    /\ [][probe'.id # ""
              => \A other \in Effects("worker") \ {probe'.id} :
                     probe'.lastPlayTimes[other] = probe.lastPlayTimes[other]]_vars

\* An effect played twice, exactly its cooldown apart, with a rejected call
\* of the same effect and a play of another effect in between.
C25_Witness ==
    /\ Len(probe.plays) = 3
    /\ probe.plays[1].id = "iceCast"
    /\ probe.plays[2].id = "hitCrunchy"
    /\ probe.plays[3].id = "iceCast"
    /\ probe.plays[3].at = probe.plays[1].at + Cooldown["iceCast"]
    /\ probe.plays[2].at > probe.plays[1].at
    /\ probe.lastPlayTimes["iceCast"] = probe.plays[3].at

\* C26: with a timer that is never late, no Pattern Generator call is made
\* while Playing with an event time earlier than the render clock at the call.
C26_NoCallInThePast ==
    isPlaying => \A i \in 1..Len(emitted) : emitted[i].time >= now

\* The same, as long as no track swap has re-seeded nextNoteTime.
C26_NoCallInThePastWithoutSwap ==
    (isPlaying /\ calls.switchTrack = 0)
        => \A i \in 1..Len(emitted) : emitted[i].time >= now

\* Two timely pulses after one start(), each making a call.
C26_WithoutSwapWitness ==
    /\ calls.switchTrack = 0
    /\ isPlaying
    /\ emitted # <<>>
    /\ seed.calls > Len(emitted)
    /\ now > seed.time

\* C27: a stop() of the worker-driven engine that passes its guard clears
\* isPlaying, posts 'stop' to the worker and re-schedules the master gain;
\* it leaves tick, measure, currentTrack, bpm, noteLength and nextNoteTime
\* as they were, and touches no scheduled voice, no pending callback, no
\* live interval and no bus connection: the latest stop time of the voices
\* is what it was.
C27_StopFrame ==
    [][(engine = "worker" /\ lastOp'.op = "stop" /\ isPlaying)
          => /\ ~isPlaying'
             /\ UNCHANGED <<tick, measure, currentTrack, bpm, noteLength, nextNoteTime>>
             /\ voiceEnd' = voiceEnd
             /\ UNCHANGED <<timers, id, intervals, toMain, workerAlive, busConnected, now>>
             /\ toWorker' = PostMessage(toWorker, "stop")]_vars

\* stop() taken in the middle of a bar while a scheduled voice has yet to end.
C27_Witness ==
    /\ engine = "worker"
    /\ lastOp.op = "stop"
    /\ ~isPlaying
    /\ Len(toWorker) > 0
    /\ toWorker[Len(toWorker)] = "stop"
    /\ tick > 0
    /\ voiceEnd.latest > now

\* C28: the mix bus nodes are disconnected by the callback of destroy()'s
\* timer and by no other step: start, stop, switchTrack, the deferred swap,
\* the pulses and the clock leave the bus as construction wired it, and a
\* released bus is never wired again.
C28_OnlyReleaseDisconnectsBus ==
    [][busConnected' # busConnected
          => /\ busConnected
             /\ lastOp'.op = "none"
             /\ \E i \in 1..Len(timers) :
                    /\ timers[i].kind = "destroy"
                    /\ timers[i].due <= now
                    /\ timers' = Remove(timers, i)]_vars

\* The bus still wired after start(), switchTrack(), pulses that built
\* voices, and stop().
C28_Witness ==
    /\ busConnected
    /\ lastOp.op = "stop"
    /\ ~isPlaying
    /\ calls.switchTrack > 0
    /\ voiceEnd.latest > 0

\* C28, the voices: a voice's cleanup disconnects nodes that voice created
\* and no bus node, and removes no connection but those leaving its own
\* nodes.
C28_CleanupOwnNodesOnly ==
    /\ [](\A i \in 1..Len(voices) :
              /\ voices[i].owned \subseteq voices[i].nodes
              /\ voices[i].nodes \cap BusNodes = {}
              /\ DOMAIN voices[i].disconnects = voices[i].owned)
    /\ [][\A i \in 1..Len(voices) :
              i <= Len(voices')
                  => \A e \in voices[i].edges \ voices'[i].edges :
                         e[1] \in voices[i].owned]_vars
    /\ [](busConnected)

\* A voice torn down: its own nodes disconnected, the bus wired.
C28_CleanupWitness ==
    /\ busConnected
    /\ \E i \in 1..Len(voices) :
           /\ voices[i].done
           /\ voices[i].owned # {}
           /\ \A n \in voices[i].owned : voices[i].disconnects[n] = 1

SwapPending == \E i \in 1..Len(timers) : timers[i].kind = "swap"

Swaps(q) == Cardinality({i \in 1..Len(q) : q[i].kind = "swap"})

\* C29: once no crossfade callback is pending, currentTrack is the name
\* passed to the most recent switchTrack call; and tick and measure are set
\* to 0 once for each accepted switchTrack: at the call, or by the one
\* callback it registers, and no other step registers such a callback.
C29_LastSwitchWins ==
    /\ []((calls.last # "" /\ ~SwapPending) => currentTrack = calls.last)
    /\ [][IF lastOp'.op = "switchTrack" /\ currentTrack # lastOp'.arg
          THEN \/ Swaps(timers') = Swaps(timers) + 1 /\ tick' = tick /\ measure' = measure
               \/ Swaps(timers') = Swaps(timers) /\ tick' = 0 /\ measure' = 0
          ELSE /\ Swaps(timers') <= Swaps(timers)
               /\ Swaps(timers') < Swaps(timers) => (tick' = 0 /\ measure' = 0)]_vars

\* C29 in the setTimeout-driven engine, whose switchTrack swaps at the call.
C29_LegacyLastSwitchWins ==
    (engine = "legacy" /\ calls.last # "") => currentTrack = calls.last

\* Two switchTrack calls with different names made in that engine.
C29_LegacyWitness ==
    /\ engine = "legacy"
    /\ calls.switchTrack = 2
    /\ calls.last = "ambient"
    /\ currentTrack = "ambient"
    /\ lastOp.op = "switchTrack"

\* The target the master gain is heading for: the value of its last event.
Heading == IF masterGain = <<>> THEN -1 ELSE masterGain[Len(masterGain)].v

\* C30: between a stop() and the next start() the master gain heads for
\* silence, whatever operation or deferred callback has run since the stop.
C30_SilentWhileStopped ==
    (~isPlaying /\ started.at >= 0) => Heading = 0

\* C30 in the worker-driven engine as long as switchTrack is not called.
C30_WorkerSilentWithoutSwitch ==
    (engine = "worker" /\ calls.switchTrack = 0 /\ ~isPlaying /\ started.at >= 0)
        => Heading = 0

\* The worker-driven engine stopped after a start(), the clock having moved on.
C30_WorkerWitness ==
    /\ engine = "worker"
    /\ calls.switchTrack = 0
    /\ ~isPlaying
    /\ started.at >= 0
    /\ now > started.at
    /\ Heading = 0

\* destroy() has not been called: the worker lives and no release is pending.
NotDestroyed == workerAlive /\ \A i \in 1..Len(timers) : timers[i].kind # "destroy"

Loops(q) == Cardinality({i \in 1..Len(q) : q[i].kind = "loop"})

\* C32: in the setTimeout-driven engine at most one schedule() re-arm
\* timeout is pending at any time.
C32_OneLoopPending ==
    engine = "legacy" => Loops(timers) <= 1

\* C32 as long as start() is not called again after a stop().
C32_OneLoopUntilRestart ==
    (engine = "legacy" /\ ~started.again) => Loops(timers) <= 1

\* The loop re-armed by its own callback, some calls made, one timeout pending.
C32_FirstRunWitness ==
    /\ engine = "legacy"
    /\ ~started.again
    /\ isPlaying
    /\ seed.calls > 0
    /\ now > started.at
    /\ Loops(timers) = 1

\* C33: noteLength is 60 / bpm / 4, and bpm is 135 whenever currentTrack is
\* 'mainTheme' and 90 whenever it is 'ambient'.
C33_TempoOfTrack ==
    /\ noteLength = NoteLengthOf(bpm)
    /\ currentTrack = "mainTheme" => bpm = MainThemeBpm
    /\ currentTrack = "ambient" => bpm = OtherBpm

\* C33 without the constructor's tempo: noteLength is 60 / bpm / 4, bpm is
\* 135 whenever currentTrack is 'mainTheme', and on any other track it is 90
\* once a switch has set it and the constructor's 128 until then.
C33_TempoOfTrackAfterSwitch ==
    /\ noteLength = NoteLengthOf(bpm)
    /\ currentTrack = "mainTheme" => bpm = MainThemeBpm
    /\ currentTrack # "mainTheme" => bpm \in {InitialBpm, OtherBpm}
    /\ bpm = InitialBpm => currentTrack = "ambient"

\* Back on 'ambient' after 'mainTheme', now at 90.
C33_SwitchedBackWitness ==
    /\ currentTrack = "ambient"
    /\ bpm = OtherBpm
    /\ calls.switchTrack = 2
    /\ ~SwapPending

\* The voices one Pattern Generator call builds, given its random draws.
VoicesOf(eng, track, time, tk, bar, nl, rnd) ==
    LET plays == PatternOf(eng, track, time, tk, bar, nl, rnd)
    IN  [i \in 1..Len(plays) |-> Build(eng, plays[i]).voice]

\* One outcome of the random draws, to compare the others with.
SomeDraw == CHOOSE rnd \in Rnd : TRUE

\* C34: on mainTheme, outside BREAKDOWN, the voices a Pattern Generator call
\* builds for a tick and bar (their kinds, parameters and times) are the
\* same whatever the random draws; and a step that makes the call there
\* builds those voices, changes tick, measure and nextNoteTime by the
\* scheduler's own advance only, and leaves currentTrack and bpm alone.
C34_MainThemeDeterministic ==
    /\ []((currentTrack = "mainTheme" /\ ~InSection("BREAKDOWN", measure))
             => \E v \in {VoicesOf(engine, currentTrack, nextNoteTime, tick, measure,
                                   noteLength, SomeDraw)} :
                    \A rnd \in Rnd :
                        VoicesOf(engine, currentTrack, nextNoteTime, tick, measure,
                                 noteLength, rnd) = v)
    /\ [][(currentTrack = "mainTheme" /\ ~InSection("BREAKDOWN", measure)
              /\ seed'.calls = seed.calls + 1)
             => /\ voices' = VoicesOf(engine, currentTrack, nextNoteTime, tick, measure,
                                      noteLength, SomeDraw)
                /\ tick' = Advance(tick, measure).tick
                /\ measure' = Advance(tick, measure).measure
                /\ nextNoteTime' = nextNoteTime + noteLength
                /\ currentTrack' = currentTrack
                /\ bpm' = bpm]_vars

\* A mainTheme call in CHORUS that built a kick and a lead.
C34_Witness ==
    /\ engine = "worker"
    /\ currentTrack = "mainTheme"
    /\ emitted # <<>>
    /\ InSection("CHORUS", emitted[1].bar)
    /\ \E i, j \in 1..Len(voices) : voices[i].kind = "kick" /\ voices[j].kind = "lead"

=============================================================================
